---- MODULE Spec2Model ----
(***************************************************************************)
(* The analysis run of GroqLangChainTableAnalyzer                          *)
(* (src/src/groq_langchain_analyzer.py) with the mock methods of           *)
(* src/src/run_mock_analysis.py and the registry of                        *)
(* src/src/retention_manager.py.                                           *)
(*                                                                         *)
(* Python dicts are functions whose DOMAIN is the key set, so that         *)
(* d.get(k, default) and "k in d" are modelled as the code computes them.  *)
(* An insertion-ordered dict whose order matters is a record               *)
(* [order |-> <<keys>>, at |-> [key |-> value]].                           *)
(*                                                                         *)
(* The external language model is the environment: every chain.run(...)    *)
(* either raises or returns a text, and parse_json_response turns the text *)
(* into a JSON value or {} ; the actions draw that outcome from small sets.*)
(*                                                                         *)
(* Spec is the run.  SpecParse, SpecGraph and SpecMock apply               *)
(* parse_json_response, analyze_foreign_key_relationships and              *)
(* mock_analyze_retention_columns to arguments drawn by their initial      *)
(* conditions; SpecVisualizer does so for DatabaseVisualizer.get_table_info*)
(* (src/src/db_visualizer.py) and SpecRegistry calls get_lookup_hints on a *)
(* RetentionManager.                                                       *)
(***************************************************************************)
EXTENDS Naturals, Sequences, FiniteSets, TLC

VARIABLES
    mock_mode,               \* self.mock_mode
    db,                      \* the SQLite catalog behind self.db_path
    pc,                      \* position inside create_comprehensive_report
    table_schemas,           \* local of analyze_database_pure_llm
    relationships,           \* local of analyze_database_pure_llm
    group_definitions,       \* self.group_definitions
    categorization_results,  \* local of analyze_database_pure_llm
    ti,                      \* index of the Step 2 loop
    final_results,           \* local of analyze_database_pure_llm
    grouped_tables,          \* local of analyze_database_pure_llm
    gi,                      \* index of the Step 3 loop
    report,                  \* what create_comprehensive_report returned
    llm_calls,               \* the chain.run(...) calls issued so far, in order
    rcc_map,                 \* self.retention_manager._rcc_map
    response_text,           \* argument of parse_json_response
    parsed,                  \* what parse_json_response returned
    mock_args,               \* arguments of mock_analyze_retention_columns
    mock_result,             \* what mock_analyze_retention_columns returned
    lookups,                 \* the get_lookup_hints calls made on a manager
    table_info               \* what DatabaseVisualizer.get_table_info returned

\* the variables of the functions that are exercised on their own
pure == <<response_text, parsed, mock_args, mock_result, lookups, table_info>>

vars == <<mock_mode, db, pc, table_schemas, relationships, group_definitions,
          categorization_results, ti, final_results, grouped_tables, gi, report,
          llm_calls, rcc_map, pure>>

-----------------------------------------------------------------------------
(* Bounds                                                                  *)

\* at most this many foreign-key rows in the whole catalog
MaxFks == 2
\* the same, for the catalogs the relationship graph is built from on its own
MaxGraphFks == 3
\* at most this many tables of a catalog cannot be read
MaxUnreadable == 1
\* the external priority response names priorities 1..MaxPriority
MaxPriority == 4

-----------------------------------------------------------------------------
(* Python values                                                           *)

EmptyDict == [k \in {} |-> k]
None == "None"

\* d.get(k, default)
Get(d, k, default) == IF k \in DOMAIN d THEN d[k] ELSE default

\* truth value of a string-or-None
Truthy(v) == v \notin {None, ""}

EmptyOrdered == [order |-> <<>>, at |-> EmptyDict]

\* d[k] = v on an insertion-ordered dict
OrderedPut(d, k, v) ==
    [order |-> IF k \in DOMAIN d.at THEN d.order ELSE Append(d.order, k),
     at    |-> [x \in DOMAIN d.at \cup {k} |-> IF x = k THEN v ELSE d.at[x]]]

Range(s) == {s[i] : i \in DOMAIN s}

-----------------------------------------------------------------------------
(* Table names.  Names are strings; where the code looks inside a name     *)
(* (LIKE 'sqlite_%', "log" in name) the characters are taken from Chars.   *)

UserTables   == {"orders", "order_items", "sqlitelog"}
SystemTables == {"sqlite_sequence"}
\* a name the grouping response can invent
GhostTable   == "phantom"

\* the order tables are listed in (ORDER BY name / sorted())
NameOrder == <<"order_items", "orders", "phantom", "sqlite_sequence", "sqlitelog">>

SeqOf(S) == SelectSeq(NameOrder, LAMBDA n : n \in S)

Chars(n) ==
    CASE n = "orders"          -> <<"o","r","d","e","r","s">>
      [] n = "order_items"     -> <<"o","r","d","e","r","_","i","t","e","m","s">>
      [] n = "sqlitelog"       -> <<"s","q","l","i","t","e","l","o","g">>
      [] n = "sqlite_sequence" -> <<"s","q","l","i","t","e","_","s","e","q","u","e","n","c","e">>
      [] n = "phantom"         -> <<"p","h","a","n","t","o","m">>
      [] n = "invoices"        -> <<"i","n","v","o","i","c","e","s">>

\* sub in text, on character sequences
Contains(sub, text) ==
    \E i \in 1..(Len(text) + 1 - Len(sub)) :
        SubSeq(text, i, i + Len(sub) - 1) = sub

\* name LIKE 'sqlite_%' : in LIKE, _ stands for any one character and %
\* for any run of characters
LikeSqlitePattern(n) ==
    /\ Len(Chars(n)) >= 7
    /\ SubSeq(Chars(n), 1, 6) = <<"s","q","l","i","t","e">>

\* the prefix "sqlite_" taken literally, which is how the SQLAlchemy
\* inspector behind SQLDatabase.get_usable_table_names() excludes the
\* system tables (name NOT LIKE 'sqlite~_%' ESCAPE '~')
HasSqlitePrefix(n) ==
    /\ Len(Chars(n)) >= 7
    /\ SubSeq(Chars(n), 1, 7) = <<"s","q","l","i","t","e","_">>

-----------------------------------------------------------------------------
(* The catalog: the base tables of sqlite_master and their foreign keys.   *)

\* the sets of user tables a database is taken to hold
TableSets == {{}, {"orders"}, {"orders", "order_items"}, {"orders", "sqlitelog"}}

\* the foreign-key sets over the tables ts, at most MaxFks rows
FkSets(ts) ==
    {F \in SUBSET (ts \X ts) : Cardinality(F) <= MaxFks}

\* A catalog: its tables, the (child, parent) pairs of its foreign keys, and
\* the pairs whose constraint is declared twice.  The catalogs of the run
\* declare every constraint once.
\* no_info holds the tables whose get_table_info raises and no_pragma the
\* tables, among those the PRAGMA is run for, whose PRAGMA foreign_key_list
\* raises (a name that needs quoting, say); at most MaxUnreadable tables
\* are unreadable one way or the other.
Unreadable(ts) ==
    {u \in [no_info : SUBSET ts,
            no_pragma : SUBSET {t \in ts : ~LikeSqlitePattern(t)}] :
        Cardinality(u.no_info) + Cardinality(u.no_pragma) <= MaxUnreadable}

Catalogs ==
    UNION { { [tables |-> ts \cup SystemTables, fks |-> E, twice |-> {},
               no_info |-> u.no_info, no_pragma |-> u.no_pragma] :
              E \in FkSets(ts), u \in Unreadable(ts) } :
            ts \in TableSets }

\* the parents of the rows of PRAGMA foreign_key_list(t), one per row
RECURSIVE FkParents(_, _, _)
FkParents(d, t, parents) ==
    IF parents = <<>> THEN <<>>
    ELSE (IF <<t, Head(parents)>> \in d.twice
          THEN <<Head(parents), Head(parents)>>
          ELSE <<Head(parents)>>) \o FkParents(d, t, Tail(parents))

\* PRAGMA foreign_key_list(t): rows (id, seq, table, from, to)
PragmaForeignKeyList(d, t) ==
    LET ps == FkParents(d, t, SelectSeq(NameOrder, LAMBDA p : <<t, p>> \in d.fks))
    IN  [i \in 1..Len(ps) |-> <<i - 1, 0, ps[i], ps[i] \o "_id", "id">>]

\* SQLDatabase.get_usable_table_names()
GetUsableTableNames(d) == SeqOf({t \in d.tables : ~HasSqlitePrefix(t)})

\* SELECT name FROM sqlite_master WHERE type='table' AND name NOT LIKE 'sqlite_%'
SelectTables(d) == SeqOf({t \in d.tables : ~LikeSqlitePattern(t)})

\* the same loops without the "other_table != table_name" test of line 283
RECURSIVE ReferencedBy_with_self(_, _, _)
ReferencedBy_with_self(d, tables, table_name) ==
    IF tables = <<>> THEN <<>>
    ELSE LET other_table == Head(tables)
             other_fks   == PragmaForeignKeyList(d, other_table)
             hits == SelectSeq(other_fks, LAMBDA fk : fk[3] = table_name)
             mine == [i \in 1..Len(hits) |->
                         [child_table   |-> other_table,
                          child_column  |-> hits[i][4],
                          parent_column |-> hits[i][5]]]
         IN  mine \o ReferencedBy_with_self(d, Tail(tables), table_name)

\* the inner loops of analyze_foreign_key_relationships: the rows of the
\* other tables, in table order, that reference table_name
RECURSIVE ReferencedBy(_, _, _)
ReferencedBy(d, tables, table_name) ==
    IF tables = <<>> THEN <<>>
    ELSE LET other_table == Head(tables)
             other_fks   == PragmaForeignKeyList(d, other_table)
             hits == SelectSeq(other_fks, LAMBDA fk : fk[3] = table_name)
             mine == IF other_table # table_name
                     THEN [i \in 1..Len(hits) |->
                             [child_table   |-> other_table,
                              child_column  |-> hits[i][4],
                              parent_column |-> hits[i][5]]]
                     ELSE <<>>
         IN  mine \o ReferencedBy(d, Tail(tables), table_name)

analyze_foreign_key_relationships(d) ==
    LET tables == SelectTables(d)
    IN  [table_name \in Range(tables) |->
            LET foreign_keys  == PragmaForeignKeyList(d, table_name)
                referenced_by == ReferencedBy(d, tables, table_name)
            IN  [foreign_keys |->
                    [i \in 1..Len(foreign_keys) |->
                        [parent_table  |-> foreign_keys[i][3],
                         parent_column |-> foreign_keys[i][5],
                         child_column  |-> foreign_keys[i][4]]],
                 referenced_by    |-> referenced_by,
                 has_foreign_keys |-> Len(foreign_keys) > 0,
                 is_referenced    |-> Len(referenced_by) > 0]]

-----------------------------------------------------------------------------
(* The Policy Registry (retention_manager.py)                              *)

\* an enum in which two members carry one code and a rule has neither
\* years nor hints
RetentionClassCode_repeated ==
    <<[code |-> "FIN_STMT",
       rule |-> [years |-> 10, retention_type |-> "active_plus",
                 lookup_column_hints |-> <<"active_flag", "creation_date", "modified_date">>]],
      [code |-> "FIN_STMT",
       rule |-> [years |-> 0, retention_type |-> "creation_based",
                 lookup_column_hints |-> <<>>]]>>

\* the members of the enum RetentionClassCode, in definition order: each
\* value is (code, RetentionRule)
RetentionClassCode ==
    <<[code |-> "FIN_STMT",
       rule |-> [years |-> 10, retention_type |-> "active_plus",
                 lookup_column_hints |-> <<"active_flag", "creation_date", "modified_date">>]],
      [code |-> "TAX_DOC",
       rule |-> [years |-> 7, retention_type |-> "creation_based",
                 lookup_column_hints |-> <<"creation_date", "document_date">>]],
      [code |-> "FIN_TRANS",
       rule |-> [years |-> 7, retention_type |-> "creation_based",
                 lookup_column_hints |-> <<"transaction_date", "created_at", "posted_at">>]],
      [code |-> "LEGAL_CONT",
       rule |-> [years |-> 10, retention_type |-> "event_based",
                 lookup_column_hints |-> <<"termination_date", "end_date">>]],
      [code |-> "COMP_DOC",
       rule |-> [years |-> 7, retention_type |-> "active_plus",
                 lookup_column_hints |-> <<"active_flag", "created_at">>]],
      [code |-> "AUDIT_LOG",
       rule |-> [years |-> 5, retention_type |-> "creation_based",
                 lookup_column_hints |-> <<"created_at", "event_timestamp", "log_time">>]],
      [code |-> "CUST_DATA",
       rule |-> [years |-> 5, retention_type |-> "active_plus",
                 lookup_column_hints |-> <<"last_active_at", "is_active", "created_at">>]],
      [code |-> "BUS_TRANS",
       rule |-> [years |-> 7, retention_type |-> "creation_based",
                 lookup_column_hints |-> <<"transaction_date", "created_at">>]],
      [code |-> "HR_REC",
       rule |-> [years |-> 7, retention_type |-> "event_based",
                 lookup_column_hints |-> <<"termination_date", "end_date", "employment_end">>]],
      [code |-> "EMP_DATA",
       rule |-> [years |-> 5, retention_type |-> "event_based",
                 lookup_column_hints |-> <<"termination_date", "created_at">>]]>>

\* RetentionManager.__init__, line 99: {rcc.code: rcc.rule for rcc in
\* RetentionClassCode}; of two members with one code the later one stays
BuildRccMap(members) ==
    [code \in {members[i].code : i \in DOMAIN members} |->
        LET last == CHOOSE i \in DOMAIN members :
                        /\ members[i].code = code
                        /\ \A j \in DOMAIN members : members[j].code = code => j <= i
        IN  members[last].rule]

\* the map of a manager that was just constructed
NewRccMap == BuildRccMap(RetentionClassCode)

\* RetentionManager.available_rccs: the property returns self._rcc_map
available_rccs == rcc_map

\* dict.get(key) with an entry left behind for a key the dict lacks, as
\* dict.setdefault or a defaultdict lookup would leave one
AfterGet_setdefault(d, key) ==
    IF key \in DOMAIN d
    THEN d
    ELSE [k \in {key} |-> [years |-> 0, retention_type |-> "", lookup_column_hints |-> <<>>]] @@ d

\* the dict after d.get(key): get returns the value or None and leaves the
\* dict as it is (retention_manager.py 103, groq_langchain_analyzer.py 390)
AfterGet(d, key) == d

\* get_lookup_hints with [] returned for a code the map lacks
get_lookup_hints_empty(rcc_code) ==
    IF rcc_code \notin DOMAIN available_rccs
    THEN <<>>
    ELSE available_rccs[rcc_code].lookup_column_hints

\* RetentionManager.get_lookup_hints; None is the code's "return None"
get_lookup_hints(rcc_code) ==
    IF rcc_code \notin DOMAIN available_rccs
    THEN None
    ELSE available_rccs[rcc_code].lookup_column_hints

-----------------------------------------------------------------------------
(* Outcomes of one external call: chain.run(...) raised, or returned a     *)
(* text that parse_json_response turned into the value "parsed".           *)

Raised          == [raised |-> TRUE,  parsed |-> EmptyDict]
Returned(value) == [raised |-> FALSE, parsed |-> value]

\* how one call ended: it raised, its text gave {} (parse_json_response
\* returns {} for a text it cannot parse, as for the text "{}"), or its
\* text gave a JSON object with members
CallResult(outcome) ==
    IF outcome.raised THEN "raised"
    ELSE IF outcome.parsed = EmptyDict THEN "empty" ELSE "parsed"

\* a call that is issued again once after it raised
Issue_retried(calls, kind, target, outcome) ==
    LET call == [kind |-> kind, target |-> target, result |-> CallResult(outcome)]
    IN  IF outcome.raised THEN calls \o <<call, call>> ELSE Append(calls, call)

\* chain.run(...) on the chain of one step, for one table or group: the
\* call is made once, inside the try of the method that issues it
Issue(calls, kind, target, outcome) ==
    Append(calls, [kind |-> kind, target |-> target, result |-> CallResult(outcome)])

\* the RCC call: no usable JSON, a code of the registry, a code outside it,
\* an empty code
RccOutcomes ==
    {Raised, Returned(EmptyDict),
     Returned([assigned_rcc |-> "FIN_TRANS"]),
     Returned([assigned_rcc |-> "ZZZ_UNKNOWN"]),
     Returned([assigned_rcc |-> ""])}

\* the retention-column call
RetentionOutcomes ==
    {Raised, Returned([retention_lookup_columns |-> <<"created_at">>])}

\* the group names the grouping response uses
GroupNames == {"G1", "G2"}

\* one entry of the grouping response's "analysis": with or without "group"
AnalysisEntries == {EmptyDict} \cup {[group |-> g] : g \in GroupNames}

\* the grouping call: the "analysis" objects over some of the introspected
\* tables, with or without an entry for an invented one
AnalysisDicts(names) ==
    LET over == UNION { [S -> AnalysisEntries] : S \in SUBSET names }
    IN  over \cup {a @@ [t \in {GhostTable} |-> [group |-> "G1"]] : a \in over}

\* one entry of "priority_analysis": with or without "intra_group_priority"
PriorityEntries ==
    {EmptyDict} \cup {[intra_group_priority |-> p] : p \in 1..MaxPriority}

\* the priority call of one group: entries for some of the group's tables
PriorityDicts(group_tables) ==
    UNION { [S -> PriorityEntries] : S \in SUBSET Range(group_tables) }

-----------------------------------------------------------------------------
(* Table definition texts                                                  *)

\* str.lower() on one character
LowerChar(c) ==
    CASE c = "A" -> "a" [] c = "B" -> "b" [] c = "C" -> "c" [] c = "D" -> "d"
      [] c = "E" -> "e" [] c = "F" -> "f" [] c = "G" -> "g" [] c = "H" -> "h"
      [] c = "I" -> "i" [] c = "J" -> "j" [] c = "K" -> "k" [] c = "L" -> "l"
      [] c = "M" -> "m" [] c = "N" -> "n" [] c = "O" -> "o" [] c = "P" -> "p"
      [] c = "Q" -> "q" [] c = "R" -> "r" [] c = "S" -> "s" [] c = "T" -> "t"
      [] c = "U" -> "u" [] c = "V" -> "v" [] c = "W" -> "w" [] c = "X" -> "x"
      [] c = "Y" -> "y" [] c = "Z" -> "z"
      [] OTHER -> c

\* str.lower()
Lower(text) == [i \in 1..Len(text) |-> LowerChar(text[i])]

\* the columns after id in the CREATE TABLE text of a table
ColumnsText(t) ==
    CASE t = "orders"      -> <<","," ","c","r","e","a","t","e","d","_","a","t"," ","T","E","X","T">>
      [] t = "order_items" -> <<","," ","q","u","a","n","t","i","t","y"," ","I","N","T","E","G","E","R">>
      [] t = "sqlitelog"   -> <<","," ","d","a","t","e","_","c","r","e","a","t","e","d"," ","T","E","X","T",","," ","A","c","t","i","v","e"," ","I","N","T","E","G","E","R">>
      [] OTHER             -> <<>>

\* SQLDatabase.get_table_info([table_name]): the CREATE TABLE text
GetTableInfo(d, t) ==
    <<"C","R","E","A","T","E"," ","T","A","B","L","E"," ">> \o Chars(t) \o <<" ","(","i","d"," ","I","N","T","E","G","E","R">> \o ColumnsText(t) \o <<")">>

\* a table whose get_table_info raises is passed over (lines 257-261)
get_table_schemas(d) ==
    [table_name \in Range(GetUsableTableNames(d)) \ d.no_info |->
        GetTableInfo(d, table_name)]

-----------------------------------------------------------------------------
(* Step 2.1 and 2.2, real and mock                                         *)

classify_table_rcc(table_name, schema, outcome) ==
    IF outcome.raised
    THEN EmptyDict          \* except Exception: return {}
    ELSE outcome.parsed     \* a code outside rccs only prints a warning

\* analyze_retention_columns without the "if not rule" return: the rule of an
\* unregistered code is None and reading rule.retention_type raises, which
\* the method's except turns into its message
analyze_retention_columns_unchecked(table_name, schema, rcc_code, outcome) ==
    IF rcc_code \notin DOMAIN available_rccs
    THEN [error |-> "'NoneType' object has no attribute 'retention_type'"]
    ELSE IF outcome.raised
         THEN [error |-> "chain.run raised"]
         ELSE outcome.parsed

analyze_retention_columns(table_name, schema, rcc_code, outcome) ==
    IF rcc_code \notin DOMAIN available_rccs
    THEN [error |-> "Unknown RCC"]
    ELSE IF outcome.raised
         THEN [error |-> "chain.run raised"]
         ELSE outcome.parsed

mock_classify_table_rcc(table_name) ==
    LET name == Lower(Chars(table_name))
        assigned ==
            IF Contains(<<"i","n","v","o","i","c","e">>, name) \/ Contains(<<"p","a","y","m","e","n","t">>, name)
            THEN "FIN_TRANS"
            ELSE IF Contains(<<"a","u","d","i","t">>, name) \/ Contains(<<"l","o","g">>, name)
            THEN "AUDIT_LOG"
            ELSE IF Contains(<<"e","m","p","l","o","y","e","e">>, name) \/ Contains(<<"h","r","_">>, name)
            THEN "HR_REC"
            ELSE "CUST_DATA"
    IN  [assigned_rcc |-> assigned, confidence |-> 9]

\* the column mock_analyze_retention_columns appends for hint h
MockSelect(h, table_name, lc) ==
    IF h \in {"creation_date", "created_at", "created"} /\ Contains(<<"c","r","e","a","t","e","d">>, lc)
    THEN "created_at"
    ELSE IF h \in {"transaction_date", "posted_at"}
            /\ Contains(<<"i","n","v","o","i","c","e">>, Lower(Chars(table_name)))
    THEN "transaction_date"
    ELSE IF h \in {"active_flag", "is_active", "enabled"}
            /\ (Contains(<<"a","c","t","i","v","e">>, lc) \/ Contains(<<"i","s","_","a","c","t","i","v","e">>, lc))
    THEN "is_active"
    ELSE IF h \in {"termination_date", "end_date"}
            /\ (Contains(<<"t","e","r","m","i","n","a","t","e","d">>, lc) \/ Contains(<<"t","e","r","m","i","n","a","t","i","o","n">>, lc)
                \/ Contains(<<"e","n","d","_","d","a","t","e">>, lc))
    THEN "termination_date"
    ELSE h

\* the selection with the hints that resolve to no column left out
mock_analyze_retention_columns_resolved_only(table_name, schema, rcc_code) ==
    LET got   == get_lookup_hints(rcc_code)
        hints == IF got = None THEN <<>> ELSE got
        lc    == Lower(schema)
    IN  [retention_lookup_columns |->
            SelectSeq([i \in 1..Len(hints) |-> MockSelect(hints[i], table_name, lc)],
                      LAMBDA c : c \in {"created_at", "transaction_date", "is_active",
                                         "termination_date"})]

mock_analyze_retention_columns(table_name, schema, rcc_code) ==
    LET got   == get_lookup_hints(rcc_code)
        hints == IF got = None THEN <<>> ELSE got
        lc    == Lower(schema)
    IN  [retention_lookup_columns |->
            [i \in 1..Len(hints) |-> MockSelect(hints[i], table_name, lc)]]

\* analyze_archival_columns_with_llm, given the results of its two calls
ArchivalInfo(rcc_result, retention_analysis) ==
    LET assigned_rcc == Get(rcc_result, "assigned_rcc", None)
    IN  IF ~Truthy(assigned_rcc)
        THEN [retention_reasoning |-> "Could not classify table into RCC",
              rcc_classification  |-> rcc_result]
        ELSE [retention_reasoning |-> "RCC classification based analysis",
              rcc_classification  |-> rcc_result,
              retention_analysis  |-> retention_analysis]

analyze_archival_columns_with_llm(table_name, schema, rcc_outcome, ret_outcome) ==
    LET rcc_result == classify_table_rcc(table_name, schema, rcc_outcome)
    IN  ArchivalInfo(rcc_result,
            analyze_retention_columns(table_name, schema,
                Get(rcc_result, "assigned_rcc", None), ret_outcome))

\* the registry after analyze_archival_columns_with_llm: classify_table_rcc
\* iterates rccs.items() and tests "assigned_rcc not in rccs"; with a code
\* assigned, analyze_retention_columns looks it up with available_rccs.get
\* and again inside get_lookup_hints
RegistryAfterArchival(registry, archival_info) ==
    LET assigned_rcc == Get(archival_info.rcc_classification, "assigned_rcc", None)
    IN  IF Truthy(assigned_rcc)
        THEN AfterGet(AfterGet(registry, assigned_rcc), assigned_rcc)
        ELSE registry

\* the calls of analyze_archival_columns_with_llm with the retention-column
\* call issued for every table, whatever its classification gave
IssueArchival_always(calls, table_name, rcc_outcome, ret_outcome) ==
    Issue(Issue(calls, "rcc", table_name, rcc_outcome), "retention", table_name, ret_outcome)

\* the calls analyze_archival_columns_with_llm issues for one table: the RCC
\* call, and the retention-column call when the code is one of the registry
\* (no code: line 482 returns; unknown code: line 394 returns before the call)
IssueArchival(calls, table_name, rcc_outcome, ret_outcome) ==
    LET rcc_result == classify_table_rcc(table_name, <<>>, rcc_outcome)
        after_rcc  == Issue(calls, "rcc", table_name, rcc_outcome)
    IN  IF Get(rcc_result, "assigned_rcc", None) \in DOMAIN available_rccs
        THEN Issue(after_rcc, "retention", table_name, ret_outcome)
        ELSE after_rcc

\* the same method in mock mode: __init__ rebinds classify_table_rcc and
\* analyze_retention_columns, not analyze_archival_columns_with_llm
mock_mode_archival(table_name, schema) ==
    LET rcc_result == mock_classify_table_rcc(table_name)
    IN  ArchivalInfo(rcc_result,
            mock_analyze_retention_columns(table_name, schema,
                Get(rcc_result, "assigned_rcc", None)))

-----------------------------------------------------------------------------
(* Step 1 and Step 3 calls, real and mock                                  *)

\* an "analysis" object as an insertion-ordered dict, keys in NameOrder
AsOrdered(dict) == [order |-> SeqOf(DOMAIN dict), at |-> dict]

\* the grouping call: what chain.run + parse_json_response can give
GroupingOutcomes(names) ==
    {Raised, Returned(EmptyDict)}
    \cup {Returned([groups |-> {a[t].group : t \in {x \in DOMAIN a : "group" \in DOMAIN a[x]}},
                    analysis |-> a]) : a \in AnalysisDicts(names)}

\* the priority call of one group
PriorityOutcomes(group_tables) ==
    {Raised, Returned(EmptyDict)}
    \cup {Returned([priority_analysis |-> pa]) : pa \in PriorityDicts(group_tables)}

\* categorize_tables_with_llm past the call: (group_definitions, analysis)
categorize_tables_with_llm(outcome) ==
    [group_definitions |-> Get(outcome.parsed, "groups", {}),
     analysis          |-> Get(outcome.parsed, "analysis", EmptyDict)]

mock_categorize_tables_with_llm(schemas) ==
    [table_name \in DOMAIN schemas |-> [group |-> "DEFAULT_GROUP", confidence |-> 9]]

\* determine_priorities_with_llm past the call
determine_priorities_with_llm(outcome) ==
    Get(outcome.parsed, "priority_analysis", EmptyDict)

mock_determine_priorities_with_llm(group_tables) ==
    [t \in Range(group_tables) |->
        [intra_group_priority |-> 2, priority_type |-> "INDEPENDENT"]]

\* "Apply priority results" for one table (lines 602-610)
ApplyPriority(info, table_name, priority_results, rels) ==
    IF table_name \in DOMAIN priority_results
    THEN LET priority_info == priority_results[table_name]
         IN  [intra_group_priority |-> Get(priority_info, "intra_group_priority", 2),
              priority_type        |-> Get(priority_info, "priority_type", "UNKNOWN"),
              relationship_info    |-> Get(rels, table_name, EmptyDict)] @@ info
    ELSE info

\* the grouping loop of Step 3 (lines 588-593)
RECURSIVE GroupTablesFrom(_, _, _)
GroupTablesFrom(order, results, acc) ==
    IF order = <<>> THEN acc
    ELSE LET table_name == Head(order)
             group      == results[table_name].group
             sofar      == Get(acc.at, group, <<>>)
         IN  GroupTablesFrom(Tail(order), results,
                             OrderedPut(acc, group, Append(sofar, table_name)))

-----------------------------------------------------------------------------
(* The report                                                              *)

\* list.sort(key=...) : stable, ascending
RECURSIVE InsertSorted(_, _)
InsertSorted(sorted, x) ==
    IF sorted = <<>> THEN <<x>>
    ELSE IF Head(sorted).intra_group_priority <= x.intra_group_priority
         THEN <<Head(sorted)>> \o InsertSorted(Tail(sorted), x)
         ELSE <<x>> \o sorted

\* the list left in insertion order
SortByPriority_unsorted(list) == list

RECURSIVE SortByPriority(_)
SortByPriority(list) ==
    IF list = <<>> THEN <<>>
    ELSE InsertSorted(SortByPriority(SubSeq(list, 1, Len(list) - 1)), list[Len(list)])

\* one entry of grouped_results (lines 627-637)
GroupedEntry(table_name, info) ==
    [table_name           |-> table_name,
     intra_group_priority |-> Get(info, "intra_group_priority", 2),
     priority_type        |-> Get(info, "priority_type", "UNKNOWN"),
     rcc_classification   |-> Get(info, "rcc_classification", None),
     retention_analysis   |-> Get(info, "retention_analysis", None)]

\* the grouping with each table put in place of its group's list instead
\* of appended to it
RECURSIVE GroupResultsFrom_overwriting(_, _, _)
GroupResultsFrom_overwriting(order, results, acc) ==
    IF order = <<>> THEN acc
    ELSE LET table_name == Head(order)
             info       == results[table_name]
         IN  GroupResultsFrom_overwriting(Tail(order), results,
                 OrderedPut(acc, info.group, <<GroupedEntry(table_name, info)>>))

\* "Group results for display" (lines 622-637)
RECURSIVE GroupResultsFrom(_, _, _)
GroupResultsFrom(order, results, acc) ==
    IF order = <<>> THEN acc
    ELSE LET table_name == Head(order)
             info       == results[table_name]
             sofar      == Get(acc.at, info.group, <<>>)
         IN  GroupResultsFrom(Tail(order), results,
                 OrderedPut(acc, info.group,
                            Append(sofar, GroupedEntry(table_name, info))))

\* "Sort by priority within groups" (lines 640-641)
SortGroups(grouped) ==
    [order |-> grouped.order,
     at    |-> [g \in DOMAIN grouped.at |-> SortByPriority(grouped.at[g])]]

\* the report of a run that came through (lines 643-652)
SuccessReport(analysis_results, definitions) ==
    LET grouped_results ==
            SortGroups(GroupResultsFrom(analysis_results.order, analysis_results.at,
                                        EmptyOrdered))
    IN  [total_tables        |-> Len(analysis_results.order),
         total_groups        |-> Len(grouped_results.order),
         llm_used            |-> "ChatGroq (Pure LLM - No Fallbacks)",
         table_analysis      |-> analysis_results,
         grouped_by_priority |-> grouped_results,
         group_definitions   |-> definitions]

\* an error report that also carries an (empty) table_analysis
ErrorReport_with_analysis(message) ==
    [error          |-> message,
     llm_used       |-> "ChatGroq (Failed)",
     table_analysis |-> EmptyOrdered]

\* the report of the except branch (lines 654-660)
ErrorReport(message) ==
    [error    |-> message,
     llm_used |-> "ChatGroq (Failed)"]

NoReport == EmptyDict

-----------------------------------------------------------------------------
(* The run: create_comprehensive_report calling analyze_database_pure_llm  *)

NoFallback == "Pure LLM approach failed - no fallback available"

Init ==
    /\ mock_mode \in BOOLEAN
    /\ db \in Catalogs
    /\ pc = "get_table_schemas"
    /\ table_schemas = EmptyDict
    /\ relationships = EmptyDict
    /\ group_definitions = {}
    /\ categorization_results = EmptyOrdered
    /\ ti = 1
    /\ final_results = EmptyOrdered
    /\ grouped_tables = EmptyOrdered
    /\ gi = 1
    /\ report = NoReport
    /\ llm_calls = <<>>
    /\ rcc_map = NewRccMap
    /\ response_text = <<>>
    /\ parsed = EmptyDict
    /\ mock_args = EmptyDict
    /\ mock_result = EmptyDict
    /\ lookups = <<>>
    /\ table_info = EmptyDict

\* an exception leaves analyze_database_pure_llm and is caught at line 654
Fail(message) ==
    /\ report' = ErrorReport("Pure LLM analysis failed: " \o message)
    /\ pc' = "done"

\* lines 555-557
GetTableSchemas ==
    /\ pc = "get_table_schemas"
    /\ table_schemas' = get_table_schemas(db)
    /\ IF table_schemas' = EmptyDict
       THEN Fail("Could not extract table definitions")
       ELSE pc' = "relationships" /\ UNCHANGED report
    /\ UNCHANGED <<llm_calls, rcc_map, pure>>
    /\ UNCHANGED <<mock_mode, db, relationships, group_definitions,
                   categorization_results, ti, final_results, grouped_tables, gi>>

\* what sqlite3 raises for a PRAGMA it cannot run
PragmaError == "sqlite3.OperationalError"

\* line 561: analyze_foreign_key_relationships has no try, so a PRAGMA that
\* raises for one table of the graph ends the run
AnalyzeRelationships ==
    /\ pc = "relationships"
    /\ IF Range(SelectTables(db)) \cap db.no_pragma # {}
       THEN /\ Fail(PragmaError)
            /\ UNCHANGED relationships
       ELSE /\ relationships' = analyze_foreign_key_relationships(db)
            /\ pc' = "categorize"
            /\ UNCHANGED report
    /\ UNCHANGED <<llm_calls, rcc_map, pure>>
    /\ UNCHANGED <<mock_mode, db, table_schemas, group_definitions,
                   categorization_results, ti, final_results, grouped_tables, gi>>

\* Categorize without the "if not categorization_results" check of line 564
Categorize_unchecked ==
    /\ pc = "categorize"
    /\ ~mock_mode
    /\ \E outcome \in GroupingOutcomes(DOMAIN table_schemas) :
        /\ llm_calls' = Issue(llm_calls, "grouping", "", outcome)
        /\ IF outcome.raised
           THEN /\ Fail(NoFallback)
                /\ UNCHANGED <<group_definitions, categorization_results>>
           ELSE LET result == categorize_tables_with_llm(outcome)
                IN  /\ group_definitions' = result.group_definitions
                    /\ categorization_results' = AsOrdered(result.analysis)
                    /\ pc' = "archival"
                    /\ UNCHANGED report
    /\ UNCHANGED <<rcc_map, pure>>
    /\ UNCHANGED <<mock_mode, db, table_schemas, relationships, ti, final_results,
                   grouped_tables, gi>>

\* lines 563-565 with categorize_tables_with_llm (lines 418-464).  The graph
\* the method builds again at line 424 only feeds the prompt text.  Raised
\* stands for any exception inside its try (the call, or a parsed value that
\* is no dict), re-raised at line 464.  Dict order is taken to be NameOrder
\* and "groups" to name the groups the analysis uses.
Categorize ==
    /\ pc = "categorize"
    /\ ~mock_mode
    /\ \E outcome \in GroupingOutcomes(DOMAIN table_schemas) :
        /\ llm_calls' = Issue(llm_calls, "grouping", "", outcome)
        /\ IF outcome.raised
           THEN /\ Fail(NoFallback)
                /\ UNCHANGED <<group_definitions, categorization_results>>
           ELSE LET result == categorize_tables_with_llm(outcome)
                IN  /\ group_definitions' = result.group_definitions
                    /\ IF result.analysis = EmptyDict
                       THEN /\ Fail("LLM categorization failed")
                            /\ UNCHANGED categorization_results
                       ELSE /\ categorization_results' = AsOrdered(result.analysis)
                            /\ pc' = "archival"
                            /\ UNCHANGED report
    /\ UNCHANGED <<rcc_map, pure>>
    /\ UNCHANGED <<mock_mode, db, table_schemas, relationships, ti, final_results,
                   grouped_tables, gi>>

\* lines 563-565 with mock_categorize_tables_with_llm
CategorizeMock ==
    /\ pc = "categorize"
    /\ mock_mode
    /\ categorization_results' = AsOrdered(mock_categorize_tables_with_llm(table_schemas))
    /\ pc' = "archival"
    /\ UNCHANGED <<llm_calls, rcc_map, pure>>
    /\ UNCHANGED <<mock_mode, db, table_schemas, relationships, group_definitions, ti,
                   final_results, grouped_tables, gi, report>>

\* the table the Step 2 loop is at
CurrentTable == categorization_results.order[ti]

\* line 572: a categorized name that has no schema is passed over
ArchivalSkip ==
    /\ pc = "archival"
    /\ ti <= Len(categorization_results.order)
    /\ CurrentTable \notin DOMAIN table_schemas
    /\ ti' = ti + 1
    /\ UNCHANGED <<llm_calls, rcc_map, pure>>
    /\ UNCHANGED <<mock_mode, db, pc, table_schemas, relationships, group_definitions,
                   categorization_results, final_results, grouped_tables, gi, report>>

\* line 579: cat_info["group"] of an entry without "group" raises KeyError
ArchivalKeyError ==
    /\ pc = "archival"
    /\ ti <= Len(categorization_results.order)
    /\ CurrentTable \in DOMAIN table_schemas
    /\ "group" \notin DOMAIN categorization_results.at[CurrentTable]
    /\ Fail("'group'")
    /\ UNCHANGED <<llm_calls, rcc_map, pure>>
    /\ UNCHANGED <<mock_mode, db, table_schemas, relationships, group_definitions,
                   categorization_results, ti, final_results, grouped_tables, gi>>

\* lines 571-585, one table, real mode
Archival ==
    /\ pc = "archival"
    /\ ~mock_mode
    /\ ti <= Len(categorization_results.order)
    /\ CurrentTable \in DOMAIN table_schemas
    /\ "group" \in DOMAIN categorization_results.at[CurrentTable]
    /\ \E rcc_outcome \in RccOutcomes, ret_outcome \in RetentionOutcomes :
        LET cat_info      == categorization_results.at[CurrentTable]
            archival_info == analyze_archival_columns_with_llm(
                                 CurrentTable, table_schemas[CurrentTable],
                                 rcc_outcome, ret_outcome)
            combined      == archival_info @@ cat_info
        IN  /\ final_results' = OrderedPut(final_results, CurrentTable, combined)
            /\ llm_calls' = IssueArchival(llm_calls, CurrentTable, rcc_outcome, ret_outcome)
            /\ rcc_map' = RegistryAfterArchival(rcc_map, archival_info)
    /\ ti' = ti + 1
    /\ UNCHANGED pure
    /\ UNCHANGED <<mock_mode, db, pc, table_schemas, relationships, group_definitions,
                   categorization_results, grouped_tables, gi, report>>

\* lines 571-585, one table, mock mode
ArchivalMock ==
    /\ pc = "archival"
    /\ mock_mode
    /\ ti <= Len(categorization_results.order)
    /\ CurrentTable \in DOMAIN table_schemas
    /\ "group" \in DOMAIN categorization_results.at[CurrentTable]
    /\ LET cat_info      == categorization_results.at[CurrentTable]
           archival_info == mock_mode_archival(CurrentTable, table_schemas[CurrentTable])
           combined      == archival_info @@ cat_info
       IN  final_results' = OrderedPut(final_results, CurrentTable, combined)
    /\ ti' = ti + 1
    /\ UNCHANGED <<llm_calls, rcc_map, pure>>
    /\ UNCHANGED <<mock_mode, db, pc, table_schemas, relationships, group_definitions,
                   categorization_results, grouped_tables, gi, report>>

\* lines 588-593
GroupTables ==
    /\ pc = "archival"
    /\ ti > Len(categorization_results.order)
    /\ grouped_tables' = GroupTablesFrom(final_results.order, final_results.at, EmptyOrdered)
    /\ gi' = 1
    /\ pc' = "priorities"
    /\ UNCHANGED <<llm_calls, rcc_map, pure>>
    /\ UNCHANGED <<mock_mode, db, table_schemas, relationships, group_definitions,
                   categorization_results, ti, final_results, report>>

CurrentGroup == grouped_tables.order[gi]

\* final_results after "Apply priority results" for one group
AppliedPriorities(group_table_list, priority_results) ==
    [order |-> final_results.order,
     at    |-> [t \in DOMAIN final_results.at |->
                  IF t \in Range(group_table_list)
                  THEN ApplyPriority(final_results.at[t], t, priority_results, relationships)
                  ELSE final_results.at[t]]]

\* lines 596-610, one group, real mode
Priorities ==
    /\ pc = "priorities"
    /\ ~mock_mode
    /\ gi <= Len(grouped_tables.order)
    /\ \E outcome \in PriorityOutcomes(grouped_tables.at[CurrentGroup]) :
        /\ llm_calls' = Issue(llm_calls, "priority", CurrentGroup, outcome)
        /\ IF outcome.raised
           THEN /\ Fail(NoFallback)
                /\ UNCHANGED <<final_results, gi>>
           ELSE /\ final_results' = AppliedPriorities(grouped_tables.at[CurrentGroup],
                                                      determine_priorities_with_llm(outcome))
                /\ gi' = gi + 1
                /\ UNCHANGED <<pc, report>>
    /\ UNCHANGED <<rcc_map, pure>>
    /\ UNCHANGED <<mock_mode, db, table_schemas, relationships, group_definitions,
                   categorization_results, ti, grouped_tables>>

\* lines 596-610, one group, mock mode
PrioritiesMock ==
    /\ pc = "priorities"
    /\ mock_mode
    /\ gi <= Len(grouped_tables.order)
    /\ final_results' = AppliedPriorities(grouped_tables.at[CurrentGroup],
                            mock_determine_priorities_with_llm(grouped_tables.at[CurrentGroup]))
    /\ gi' = gi + 1
    /\ UNCHANGED <<llm_calls, rcc_map, pure>>
    /\ UNCHANGED <<mock_mode, db, pc, table_schemas, relationships, group_definitions,
                   categorization_results, ti, grouped_tables, report>>

\* lines 612 and 621-652
CreateReport ==
    /\ pc = "priorities"
    /\ gi > Len(grouped_tables.order)
    /\ report' = SuccessReport(final_results, group_definitions)
    /\ pc' = "done"
    /\ UNCHANGED <<llm_calls, rcc_map, pure>>
    /\ UNCHANGED <<mock_mode, db, table_schemas, relationships, group_definitions,
                   categorization_results, ti, final_results, grouped_tables, gi>>

Next ==
    \/ GetTableSchemas
    \/ AnalyzeRelationships
    \/ Categorize
    \/ CategorizeMock
    \/ ArchivalSkip
    \/ ArchivalKeyError
    \/ Archival
    \/ ArchivalMock
    \/ GroupTables
    \/ Priorities
    \/ PrioritiesMock
    \/ CreateReport

Spec == Init /\ [][Next]_vars

-----------------------------------------------------------------------------
(* parse_json_response on texts.  A text is a sequence of characters; the  *)
(* texts are written with the letters, digits and marks of the sets below, *)
(* which have no backslash, bracket, sign, point or control character and  *)
(* cannot spell true, false, null, NaN or Infinity.  A JSON value is held  *)
(* as its text without the white space between tokens.                     *)

Quote == "\""
\* the character U+0060, which a TLA+ string cannot hold
Backtick == "U+0060"

\* json.loads skips these between tokens, and str.strip() strips them
IsSpace(c) == c = " "

IsDigit(c) == c \in {"0", "1", "2", "3", "4", "5", "6", "7", "8", "9"}

\* the first index from i on that holds no white space (Len + 1 if none)
RECURSIVE SkipSpace(_, _)
SkipSpace(text, i) ==
    IF i <= Len(text) /\ IsSpace(text[i]) THEN SkipSpace(text, i + 1) ELSE i

\* the first index from i on that holds no digit
RECURSIVE SkipDigits(_, _)
SkipDigits(text, i) ==
    IF i <= Len(text) /\ IsDigit(text[i]) THEN SkipDigits(text, i + 1) ELSE i

\* the index of the next quote from i on (Len + 1 if none)
RECURSIVE NextQuote(_, _)
NextQuote(text, i) ==
    IF i <= Len(text) /\ text[i] # Quote THEN NextQuote(text, i + 1) ELSE i

\* the scanners of json.loads: the index after the token that starts at i,
\* 0 when no such token starts there
StringEnd(text, i) ==
    IF i <= Len(text) /\ text[i] = Quote /\ NextQuote(text, i + 1) <= Len(text)
    THEN NextQuote(text, i + 1) + 1
    ELSE 0

\* int, then an optional exponent (e and digits); no leading zero
NumberEnd(text, i) ==
    IF i > Len(text) \/ ~IsDigit(text[i]) THEN 0
    ELSE LET int_end == IF text[i] = "0" THEN i + 1 ELSE SkipDigits(text, i)
             exp_end == IF int_end < Len(text) /\ text[int_end] = "e"
                           /\ IsDigit(text[int_end + 1])
                        THEN SkipDigits(text, int_end + 1)
                        ELSE int_end
         IN  exp_end

\* The object scanner of json.loads calls itself for an object inside an
\* object and enters the interpreter's recursion guard each time; past the
\* interpreter's limit (sys.getrecursionlimit(), 1000 frames unless it is
\* changed) the guard raises RecursionError.  The limit is scaled here to
\* the short texts of the model: RecursionLimit objects can be open at once.
RecursionLimit == 3

\* what the scanners give when the guard raised: an index no token ends at
TooDeep(text) == Len(text) + 2

RECURSIVE ValueEnd(_, _, _)
RECURSIVE MembersEnd(_, _, _)

\* the members of an object from the key at i on, up to and with the "}";
\* depth is the number of objects open at i
MembersEnd(text, i, depth) ==
    LET key_end == StringEnd(text, i)
        colon   == SkipSpace(text, key_end)
        val_end == IF key_end # 0 /\ colon <= Len(text) /\ text[colon] = ":"
                   THEN ValueEnd(text, SkipSpace(text, colon + 1), depth)
                   ELSE 0
        after   == SkipSpace(text, val_end)
    IN  IF val_end = TooDeep(text) THEN TooDeep(text)
        ELSE IF val_end = 0 \/ after > Len(text) THEN 0
        ELSE IF text[after] = "}" THEN after + 1
        ELSE IF text[after] = "," THEN MembersEnd(text, SkipSpace(text, after + 1), depth)
        ELSE 0

ValueEnd(text, i, depth) ==
    IF i > Len(text) THEN 0
    ELSE IF text[i] = Quote THEN StringEnd(text, i)
    ELSE IF IsDigit(text[i]) THEN NumberEnd(text, i)
    ELSE IF text[i] = "{"
         THEN LET first == SkipSpace(text, i + 1)
              IN  IF depth + 1 > RecursionLimit THEN TooDeep(text)
                  ELSE IF first > Len(text) THEN 0
                  ELSE IF text[first] = "}" THEN first + 1
                  ELSE MembersEnd(text, first, depth + 1)
    ELSE 0

\* json.loads(text) raises RecursionError, which is no JSONDecodeError
RaisesRecursionError(text) ==
    ValueEnd(text, SkipSpace(text, 1), 0) = TooDeep(text)

\* json.loads(text) succeeds: one value, white space around it
IsJson(text) ==
    LET start == SkipSpace(text, 1)
        end   == ValueEnd(text, start, 0)
    IN  end # 0 /\ end # TooDeep(text) /\ SkipSpace(text, end) = Len(text) + 1

\* the text without the white space outside its strings
RECURSIVE Compact(_, _, _)
Compact(text, i, in_string) ==
    IF i > Len(text) THEN <<>>
    ELSE IF text[i] = Quote THEN <<text[i]>> \o Compact(text, i + 1, ~in_string)
    ELSE IF IsSpace(text[i]) /\ ~in_string THEN Compact(text, i + 1, in_string)
    ELSE <<text[i]>> \o Compact(text, i + 1, in_string)

\* the value json.loads(text) returns, for a text with IsJson(text)
JsonValue(text) == Compact(text, 1, FALSE)

\* the value of the text "{}" : the empty dict
EmptyObject == <<"{", "}">>

\* str.strip()
RECURSIVE Strip(_)
Strip(text) ==
    IF text = <<>> THEN text
    ELSE IF IsSpace(Head(text)) THEN Strip(Tail(text))
    ELSE IF IsSpace(text[Len(text)]) THEN Strip(SubSeq(text, 1, Len(text) - 1))
    ELSE text

StartsWith(text, prefix) ==
    Len(text) >= Len(prefix) /\ SubSeq(text, 1, Len(prefix)) = prefix

EndsWith(text, suffix) ==
    Len(text) >= Len(suffix)
    /\ SubSeq(text, Len(text) - Len(suffix) + 1, Len(text)) = suffix

prefixes_to_remove ==
    <<<<"H","e","r","e"," ","i","s"," ","t","h","e"," ","a","n","a","l","y","s","i","s"," ","i","n"," ","t","h","e"," ","r","e","q","u","i","r","e","d"," ","J","S","O","N"," ","f","o","r","m","a","t",":">>,
      <<"H","e","r","e"," ","i","s"," ","t","h","e"," ","J","S","O","N"," ","r","e","s","p","o","n","s","e",":">>,
      <<"H","e","r","e","'","s"," ","t","h","e"," ","a","n","a","l","y","s","i","s",":">>,
      <<"T","h","e"," ","a","n","a","l","y","s","i","s"," ","i","s",":">>,
      <<Backtick,Backtick,Backtick,"j","s","o","n">>,
      <<Backtick,Backtick,Backtick>>,
      <<"B","a","s","e","d"," ","o","n"," ","t","h","e"," ","a","n","a","l","y","s","i","s",":">>>>

\* the loop of lines 324-326 from the i-th prefix on
RECURSIVE RemovePrefixes(_, _)
RemovePrefixes(cleaned, i) ==
    IF i > Len(prefixes_to_remove) THEN cleaned
    ELSE IF StartsWith(cleaned, prefixes_to_remove[i])
         THEN RemovePrefixes(
                  Strip(SubSeq(cleaned, Len(prefixes_to_remove[i]) + 1, Len(cleaned))),
                  i + 1)
         ELSE RemovePrefixes(cleaned, i + 1)

\* lines 311-329: cleaned before the object is looked for
Cleaned(text) ==
    LET cleaned == RemovePrefixes(Strip(text), 1)
    IN  IF EndsWith(cleaned, <<Backtick,Backtick,Backtick>>)
        THEN Strip(SubSeq(cleaned, 1, Len(cleaned) - 3))
        ELSE cleaned

\* cleaned.find of the opening brace, as an index from 1, 0 when not found
RECURSIVE FindBrace(_, _)
FindBrace(cleaned, i) ==
    IF i > Len(cleaned) THEN 0
    ELSE IF cleaned[i] = "{" THEN i
    ELSE FindBrace(cleaned, i + 1)

\* the loop of lines 336-343: the index of the "}" at which brace_count
\* comes back to 0, 0 when it never does
RECURSIVE BraceScan(_, _, _)
BraceScan(cleaned, i, brace_count) ==
    IF i > Len(cleaned) THEN 0
    ELSE IF cleaned[i] = "{" THEN BraceScan(cleaned, i + 1, brace_count + 1)
    ELSE IF cleaned[i] = "}"
         THEN IF brace_count - 1 = 0 THEN i
              ELSE BraceScan(cleaned, i + 1, brace_count - 1)
    ELSE BraceScan(cleaned, i + 1, brace_count)

\* lines 332-346: cleaned[start_idx:end_idx] when both are found
ExtractObject(cleaned) ==
    LET start_idx == FindBrace(cleaned, 1)
        last      == IF start_idx = 0 THEN 0 ELSE BraceScan(cleaned, start_idx, 0)
    IN  IF start_idx # 0 /\ last # 0
        THEN SubSeq(cleaned, start_idx, last)
        ELSE cleaned

\* what the function is left with when an exception leaves it
RecursionError == <<"RecursionError">>

\* both try blocks catch json.JSONDecodeError only (lines 309 and 349)
parse_json_response(text) ==
    IF RaisesRecursionError(text) THEN RecursionError
    ELSE IF IsJson(text) THEN JsonValue(text)
    ELSE LET cleaned == ExtractObject(Cleaned(text))
         IN  IF RaisesRecursionError(cleaned) THEN RecursionError
             ELSE IF IsJson(cleaned) THEN JsonValue(cleaned) ELSE EmptyObject

\* what a response says before its JSON object: texts without braces
Proses ==
    {<<>>,
     <<"a"," ">>,
     <<"R","e","s","u","l","t",":"," ">>,
     <<Backtick,Backtick,Backtick,"j","s","o","n">>,
     <<"T","h","e"," ","a","n","a","l","y","s","i","s"," ","i","s",":"," ","a">>}

\* JSON objects a response can hold
JsonObjects ==
    {<<"{","}">>,
     <<"{","\"","a","\"",":","\"","a","\"","}">>,
     <<"{","\"","a","\"",":"," ","{","}","}">>,
     <<"{","\"","a","\"",":","\"","}","\"","}">>,
     <<"{","\"","a","\"",":","\"","{","\"","}">>,
     <<"{","\"","a","\"",":","1",",","\"","b","\"",":","{","\"","a","\"",":","\"","a"," ","b","\"","}","}">>,
     <<"{","\"","a","s","s","i","g","n","e","d","_","r","c","c","\"",":","\"","C","F","A","3","6","0","\"","}">>,
     <<"{","\"","a","\"",":","\"","{","}","\"","}">>}

\* what a response says after its JSON object
Trailers ==
    {<<>>,
     <<" ">>,
     <<" ","a">>,
     <<Backtick,Backtick,Backtick>>,
     <<"}">>,
     <<" ","{","}">>,
     <<"\""," ","a">>}

\* responses of other forms
OtherTexts ==
    {<<>>,
     <<"a">>,
     <<"{">>,
     <<"}","{">>,
     <<"\"","a","\"">>,
     <<"1","0">>,
     <<"{","\"","a","\"","}">>,
     <<"{","\"","a","\"",":","}">>,
     <<"{","\"","a","\"",":","1",",","}">>,
     <<Backtick,Backtick,Backtick,Backtick,Backtick,Backtick>>,
     <<"{","{","}","}">>,
     <<"0","1">>,
     <<"1","e","1">>,
     <<" ","{","}"," ">>,
     <<"{","\"","a","\"",":","{","\"","a","\"",":","{","\"","a","\"",":","{","\"","a","\"",":">>,
     <<"{","\"","a","\"",":","{","\"","a","\"",":","{","\"","a","\"",":","{","\"","a","\"",":","1","}","}","}","}">>,
     <<"R","e","s","u","l","t",":"," ","{","\"","a","\"",":","{","\"","a","\"",":","{","\"","a","\"",":","{","\"","a","\"",":","1","}","}","}","}"," ","a">>,
     <<"{","\"","a","\"",":","{","\"","a","\"",":","{","\"","a","\"",":">>}

\* the response texts parse_json_response is applied to
ResponseTexts ==
    {p \o j \o t : p \in Proses, j \in JsonObjects, t \in Trailers} \cup OtherTexts

-----------------------------------------------------------------------------
(* Functions exercised on their own: the arguments are drawn by the        *)
(* initial condition and one action applies the function.                  *)

\* no run of create_comprehensive_report is under way
NoRun ==
    /\ mock_mode = FALSE
    /\ table_schemas = EmptyDict
    /\ relationships = EmptyDict
    /\ group_definitions = {}
    /\ categorization_results = EmptyOrdered
    /\ ti = 1
    /\ final_results = EmptyOrdered
    /\ grouped_tables = EmptyOrdered
    /\ gi = 1
    /\ report = NoReport
    /\ llm_calls = <<>>
    /\ rcc_map = NewRccMap

run == <<mock_mode, table_schemas, relationships, group_definitions,
         categorization_results, ti, final_results, grouped_tables, gi, report,
         llm_calls, rcc_map>>

\* no database is looked at
NoDatabase == [tables |-> {}, fks |-> {}, twice |-> {}, no_info |-> {}, no_pragma |-> {}]

InitParse ==
    /\ NoRun
    /\ db = NoDatabase
    /\ pc = "parse_json_response"
    /\ response_text \in ResponseTexts
    /\ parsed = <<>>
    /\ mock_args = EmptyDict
    /\ mock_result = EmptyDict
    /\ lookups = <<>>
    /\ table_info = EmptyDict

ParseJsonResponse ==
    /\ pc = "parse_json_response"
    /\ parsed' = parse_json_response(response_text)
    /\ pc' = "parsed"
    /\ UNCHANGED <<run, db, response_text, mock_args, mock_result, lookups, table_info>>

NextParse == ParseJsonResponse

SpecParse == InitParse /\ [][NextParse]_vars

\* The catalogs analyze_foreign_key_relationships is applied to on its own:
\* any tables, foreign keys to any name (SQLite accepts a REFERENCES clause
\* that names a table the database does not hold), constraints declared
\* once or twice, at most MaxGraphFks rows.
GraphCatalogs ==
    UNION { UNION { { [tables |-> ts \cup SystemTables, fks |-> E, twice |-> D,
                       no_info |-> {}, no_pragma |-> {}] :
                      D \in {X \in SUBSET E :
                                 Cardinality(E) + Cardinality(X) <= MaxGraphFks} } :
                    E \in {X \in SUBSET (ts \X UserTables) :
                               Cardinality(X) <= MaxGraphFks} } :
            ts \in SUBSET UserTables }

InitGraph ==
    /\ NoRun
    /\ db \in GraphCatalogs
    /\ pc = "analyze_foreign_key_relationships"
    /\ response_text = <<>>
    /\ parsed = <<>>
    /\ mock_args = EmptyDict
    /\ mock_result = EmptyDict
    /\ lookups = <<>>
    /\ table_info = EmptyDict

BuildGraph ==
    /\ pc = "analyze_foreign_key_relationships"
    /\ relationships' = analyze_foreign_key_relationships(db)
    /\ pc' = "graph"
    /\ UNCHANGED <<mock_mode, db, table_schemas, group_definitions,
                   categorization_results, ti, final_results, grouped_tables, gi,
                   report, llm_calls, rcc_map, pure>>

NextGraph == BuildGraph

SpecGraph == InitGraph /\ [][NextGraph]_vars

\* the tables mock_analyze_retention_columns is applied to on its own
MockTables == UserTables \cup {"invoices"}

\* the definition texts it is applied to: those of the tables, and texts
\* with an end date, with a flag in capitals, and with no column at all
MockSchemas ==
    {GetTableInfo(NoDatabase, t) : t \in MockTables}
    \cup {<<"C","R","E","A","T","E"," ","T","A","B","L","E"," ","t"," ","(","i","d"," ","I","N","T","E","G","E","R",","," ","E","n","d","_","D","a","t","e"," ","T","E","X","T",")">>,
          <<"C","R","E","A","T","E"," ","T","A","B","L","E"," ","t"," ","(","i","d"," ","I","N","T","E","G","E","R",","," ","I","S","_","A","C","T","I","V","E"," ","I","N","T","E","G","E","R",","," ","t","e","r","m","i","n","a","t","e","d"," ","I","N","T","E","G","E","R",")">>,
          <<>>}

\* the codes it is applied to: the registry's, one outside it, and None
MockCodes == DOMAIN NewRccMap \cup {"ZZZ_UNKNOWN", None}

InitMock ==
    /\ NoRun
    /\ db = NoDatabase
    /\ pc = "mock_analyze_retention_columns"
    /\ response_text = <<>>
    /\ parsed = <<>>
    /\ mock_args \in [table_name : MockTables, schema : MockSchemas, rcc_code : MockCodes]
    /\ mock_result = EmptyDict
    /\ lookups = <<>>
    /\ table_info = EmptyDict

MockAnalyzeRetentionColumns ==
    /\ pc = "mock_analyze_retention_columns"
    /\ mock_result' = mock_analyze_retention_columns(
                          mock_args.table_name, mock_args.schema, mock_args.rcc_code)
    /\ pc' = "mock_selected"
    /\ UNCHANGED <<run, db, response_text, parsed, mock_args, lookups, table_info>>

NextMock == MockAnalyzeRetentionColumns

SpecMock == InitMock /\ [][NextMock]_vars

\* DatabaseVisualizer.get_table_info (src/src/db_visualizer.py), applied to
\* a database with the one table orders (id, email, name): the table's
\* PRIMARY KEY, whether it is a single INTEGER PRIMARY KEY column (the alias
\* of the rowid, for which SQLite creates no index), and the indexes
\* created on the table, the newest first as PRAGMA index_list lists them.

MaxIndexes == 2

VisColumns == <<"id", "email", "name">>

\* the PRIMARY KEY declarations: none, one column, two columns
PrimaryKeys == {<<>>, <<"id">>, <<"id", "email">>}

\* CREATE [UNIQUE] INDEX ... ON orders (columns)
IndexDecls == [columns : {<<"email">>, <<"name">>, <<"email", "name">>}, unique : BOOLEAN]

VisualizerCatalogs ==
    { [tables |-> {"orders"} \cup SystemTables, fks |-> E, twice |-> {},
       no_info |-> {}, no_pragma |-> {},
       primary_key |-> pk, rowid_alias |-> alias, indexes |-> ix] :
      E \in {{}, {<<"orders", "orders">>}},
      pk \in PrimaryKeys,
      alias \in BOOLEAN,
      ix \in UNION { {q \in [1..n -> IndexDecls] :
                        \A i, j \in 1..n : q[i] = q[j] => i = j} :
                     n \in 0..MaxIndexes } }

\* the catalogs SQLite can hold: only a one-column key can alias the rowid
VisualizerDatabases ==
    {d \in VisualizerCatalogs : d.rowid_alias => Len(d.primary_key) = 1}

\* position of a name in a sequence, 0 when it is not in it
IndexOf(seq, x) ==
    IF \E i \in DOMAIN seq : seq[i] = x
    THEN CHOOSE i \in DOMAIN seq : seq[i] = x
    ELSE 0

\* PRAGMA table_info(t): rows (cid, name, type, notnull, dflt_value, pk),
\* pk being the column's position in the primary key, 0 outside it
PragmaTableInfo(d, t) ==
    [i \in 1..Len(VisColumns) |->
        <<i - 1, VisColumns[i],
          IF VisColumns[i] = "id" /\ d.rowid_alias THEN "INTEGER" ELSE "TEXT",
          0, None, IndexOf(d.primary_key, VisColumns[i])>>]

\* the name of the i-th created index
IndexName(i) ==
    CASE i = 1 -> "idx_1" [] i = 2 -> "idx_2" [] i = 3 -> "idx_3" [] OTHER -> "idx_n"

AutoIndex == "sqlite_autoindex_orders_1"

\* PRAGMA index_list(t): rows (seq, name, unique, origin, partial); the
\* index SQLite keeps for a PRIMARY KEY that is not the rowid has origin pk
PragmaIndexList(d, t) ==
    LET created == [i \in 1..Len(d.indexes) |->
                       <<i - 1, IndexName(i),
                         IF d.indexes[i].unique THEN 1 ELSE 0, "c", 0>>]
    IN  IF d.primary_key # <<>> /\ ~d.rowid_alias
        THEN Append(created, <<Len(created), AutoIndex, 1, "pk", 0>>)
        ELSE created

\* PRAGMA index_info(name): rows (seqno, cid, name)
PragmaIndexInfo(d, name) ==
    LET columns == IF name = AutoIndex
                   THEN d.primary_key
                   ELSE d.indexes[CHOOSE i \in DOMAIN d.indexes : IndexName(i) = name].columns
    IN  [i \in 1..Len(columns) |-> <<i - 1, IndexOf(VisColumns, columns[i]) - 1, columns[i]>>]

\* lines 33-40: primary_keys.extend(...) over the rows of index_list whose
\* third field, idx[2], is 1
RECURSIVE PrimaryKeysOf(_, _)
PrimaryKeysOf(d, indices) ==
    IF indices = <<>> THEN <<>>
    ELSE LET idx     == Head(indices)
             pk_cols == PragmaIndexInfo(d, idx[2])
         IN  (IF idx[3] = 1
              THEN [i \in 1..Len(pk_cols) |-> pk_cols[i][3]]
              ELSE <<>>) \o PrimaryKeysOf(d, Tail(indices))

get_table_info(d) ==
    [table_name \in Range(SelectTables(d)) |->
        LET columns      == PragmaTableInfo(d, table_name)
            foreign_keys == PragmaForeignKeyList(d, table_name)
            indices      == PragmaIndexList(d, table_name)
            primary_keys == PrimaryKeysOf(d, indices)
        IN  [columns |->
                [i \in 1..Len(columns) |->
                    [name        |-> columns[i][2],
                     type        |-> columns[i][3],
                     is_primary  |-> columns[i][2] \in Range(primary_keys),
                     is_nullable |-> columns[i][4] = 0]],
             foreign_keys |->
                [i \in 1..Len(foreign_keys) |->
                    [from_column |-> foreign_keys[i][4],
                     to_table    |-> foreign_keys[i][3],
                     to_column   |-> foreign_keys[i][5]]],
             primary_keys |-> primary_keys]]

InitVisualizer ==
    /\ NoRun
    /\ db \in VisualizerDatabases
    /\ pc = "get_table_info"
    /\ response_text = <<>>
    /\ parsed = <<>>
    /\ mock_args = EmptyDict
    /\ mock_result = EmptyDict
    /\ lookups = <<>>
    /\ table_info = EmptyDict

VisualizerGetTableInfo ==
    /\ pc = "get_table_info"
    /\ table_info' = get_table_info(db)
    /\ pc' = "table_info"
    /\ UNCHANGED <<run, db, response_text, parsed, mock_args, mock_result, lookups>>

NextVisualizer == VisualizerGetTableInfo

SpecVisualizer == InitVisualizer /\ [][NextVisualizer]_vars

\* RetentionManager on its own: a manager is constructed and
\* get_lookup_hints is called on it, up to MaxLookups times, with codes of
\* the registry and with values that are no code of it.

MaxLookups == 2

LookupCodes == DOMAIN NewRccMap \cup {"ZZZ_UNKNOWN", "", None}

InitRegistry ==
    /\ NoRun
    /\ db = NoDatabase
    /\ pc = "retention_manager"
    /\ response_text = <<>>
    /\ parsed = <<>>
    /\ mock_args = EmptyDict
    /\ mock_result = EmptyDict
    /\ lookups = <<>>
    /\ table_info = EmptyDict

GetLookupHints ==
    /\ pc = "retention_manager"
    /\ Len(lookups) < MaxLookups
    /\ \E rcc_code \in LookupCodes :
          /\ lookups' = Append(lookups, [rcc_code |-> rcc_code,
                                         returned |-> get_lookup_hints(rcc_code)])
          /\ rcc_map' = AfterGet(rcc_map, rcc_code)
    /\ UNCHANGED <<mock_mode, db, pc, table_schemas, relationships, group_definitions,
                   categorization_results, ti, final_results, grouped_tables, gi,
                   report, llm_calls, response_text, parsed, mock_args, mock_result,
                   table_info>>

NextRegistry == GetLookupHints

SpecRegistry == InitRegistry /\ [][NextRegistry]_vars

-----------------------------------------------------------------------------
(* Vocabulary of the properties                                            *)

Done      == pc = "done"
Failed    == Done /\ "error" \in DOMAIN report
Succeeded == Done /\ "error" \notin DOMAIN report

\* the tables of the report and what it records for one of them
ReportedTables == DOMAIN report.table_analysis.at
Reported(t)    == report.table_analysis.at[t]

HasPriority(info) == "intra_group_priority" \in DOMAIN info

\* positions of a table in the graph
InGraph(t)        == t \in DOMAIN relationships
FkOnly(t)         == relationships[t].has_foreign_keys /\ ~relationships[t].is_referenced
ReferencedOnly(t) == ~relationships[t].has_foreign_keys /\ relationships[t].is_referenced

\* the code a table's rcc_classification carries, None when it carries none
RecordedRcc(info) == Get(Get(info, "rcc_classification", EmptyDict), "assigned_rcc", None)
UnknownRcc(info)  == Truthy(RecordedRcc(info)) /\ RecordedRcc(info) \notin DOMAIN available_rccs

\* every entry of every list of grouped_by_priority
GroupedEntries ==
    UNION {Range(report.grouped_by_priority.at[g]) : g \in DOMAIN report.grouped_by_priority.at}

-----------------------------------------------------------------------------
(* C1: in a finished run's report, every table that has foreign keys and   *)
(* is referenced by no other table carries intra_group_priority 1.         *)
C1_FkOnlyIsPriority1 ==
    Succeeded =>
        \A t \in ReportedTables :
            (InGraph(t) /\ FkOnly(t)) =>
                (HasPriority(Reported(t)) /\ Reported(t).intra_group_priority = 1)

(* C2: in a finished run's report, every table that has no foreign keys    *)
(* and is referenced by another table carries intra_group_priority 3.      *)
C2_ReferencedOnlyIsPriority3 ==
    Succeeded =>
        \A t \in ReportedTables :
            (InGraph(t) /\ ReferencedOnly(t)) =>
                (HasPriority(Reported(t)) /\ Reported(t).intra_group_priority = 3)

(* C3: in a finished run's report, every table of the graph that is        *)
(* neither foreign-key-only nor referenced-only (a bridge table or an      *)
(* independent table) carries intra_group_priority 2.                      *)
C3_OthersArePriority2 ==
    Succeeded =>
        \A t \in ReportedTables :
            (InGraph(t) /\ ~FkOnly(t) /\ ~ReferencedOnly(t)) =>
                (HasPriority(Reported(t)) /\ Reported(t).intra_group_priority = 2)

(* C4: once the priority step has handled a group, every table of that     *)
(* group carries a priority entry produced by the step (none is left       *)
(* without an intra_group_priority).                                       *)
C4_EveryGroupTableHasPriority ==
    pc \in {"priorities", "done"} =>
        \A i \in 1..Len(grouped_tables.order) :
            i < gi =>
                \A t \in Range(grouped_tables.at[grouped_tables.order[i]]) :
                    HasPriority(final_results.at[t])

(* C5: in a non-error report every intra_group_priority, in table_analysis *)
(* and in grouped_by_priority, is one of 1, 2, 3.                          *)
C5_PrioritiesInRange ==
    Succeeded =>
        /\ \A t \in ReportedTables :
               HasPriority(Reported(t)) => Reported(t).intra_group_priority \in {1, 2, 3}
        /\ \A e \in GroupedEntries : e.intra_group_priority \in {1, 2, 3}

(* C6: a table that is in a group passed to the priority step and is not a *)
(* key of the relationship graph makes the run fail: no non-error report   *)
(* holds such a table.                                                     *)
C6_TableOutsideGraphFails ==
    Succeeded => \A t \in ReportedTables : InGraph(t)

(* C7: in every report the RCC recorded for a table is absent or a code of *)
(* the registry.                                                           *)
C7_RecordedRccIsRegistered ==
    Succeeded => \A t \in ReportedTables : ~UnknownRcc(Reported(t))

(* C8: a table whose RCC response names a code outside the registry is     *)
(* recorded with the gap {"error": "Unknown RCC"} and the run goes on: if  *)
(* the run ends in an error, the error comes from a later step (a raising  *)
(* grouping/priority call, an entry without "group"), and otherwise the    *)
(* report holds that table, with the gap, and every other analysed table.  *)
C8_UnknownRccRunContinues ==
    \A t \in DOMAIN final_results.at :
        UnknownRcc(final_results.at[t]) =>
            /\ Get(final_results.at[t], "retention_analysis", None) = [error |-> "Unknown RCC"]
            /\ ~Done => report = NoReport
            /\ Failed =>
                   report.error \in {"Pure LLM analysis failed: " \o NoFallback,
                                     "Pure LLM analysis failed: 'group'"}
            /\ Succeeded =>
                   /\ ReportedTables = DOMAIN final_results.at
                   /\ Reported(t).retention_analysis = [error |-> "Unknown RCC"]
                   /\ \E e \in GroupedEntries :
                          e.table_name = t /\ e.retention_analysis = [error |-> "Unknown RCC"]

\* a non-error report with a table of unknown RCC next to another table
C8_Witness ==
    /\ Succeeded
    /\ \E t, u \in ReportedTables :
          /\ t # u
          /\ RecordedRcc(Reported(t)) = "ZZZ_UNKNOWN"
          /\ RecordedRcc(Reported(u)) = "FIN_TRANS"

(* C9: a non-error report never lacks an introspected table: every table   *)
(* of table_schemas is in table_analysis.                                  *)
C9_NoIntrospectedTableDropped ==
    Succeeded => DOMAIN table_schemas \subseteq ReportedTables

(* C10: when the grouping call yields no analysis (the response parses to  *)
(* nothing or has no non-empty "analysis"), the run does not go on to      *)
(* Step 2: it ends with a report that has an error field and neither       *)
(* table_analysis nor grouped_by_priority, and nothing was analysed.       *)
C10_EmptyGroupingAborts ==
    (categorization_results.order = <<>> /\ pc \notin {"get_table_schemas", "relationships", "categorize"}) =>
        /\ Failed
        /\ "table_analysis" \notin DOMAIN report
        /\ "grouped_by_priority" \notin DOMAIN report
        /\ final_results = EmptyOrdered

\* the run of a database with tables ended at the grouping step's check
C10_Witness ==
    /\ Failed
    /\ table_schemas # EmptyDict
    /\ report.error = "Pure LLM analysis failed: LLM categorization failed"

\* the calls of one kind in the log
CallsOf(kind) == {llm_calls[i] : i \in {j \in DOMAIN llm_calls : llm_calls[j].kind = kind}}

(* C11: when the priority response of a group or the RCC response of a     *)
(* table gave nothing that could be parsed, a non-error report carries no  *)
(* value in its place: no table of that group is listed with an            *)
(* intra_group_priority, and that table has no assigned RCC.               *)
C11_NoGuessedValue ==
    Succeeded =>
        /\ \A c \in CallsOf("priority") :
              c.result = "empty" =>
                  \A e \in Range(report.grouped_by_priority.at[c.target]) :
                      "intra_group_priority" \notin DOMAIN e
        /\ \A c \in CallsOf("rcc") :
              c.result = "empty" => ~Truthy(RecordedRcc(Reported(c.target)))

(* C12: for a response text made of prose without braces, a JSON object J  *)
(* and any trailing text, the brace-counting scan selects exactly the span *)
(* of J and parse_json_response returns J.                                 *)
C12_RecoversWrappedObject ==
    pc = "parsed" =>
        \A p \in Proses, j \in JsonObjects, t \in Trailers :
            response_text = p \o j \o t =>
                /\ IsJson(response_text) \/ ExtractObject(Cleaned(response_text)) = j
                /\ parsed = JsonValue(j)

\* how many times x occurs in the list
Count(list, x) == Cardinality({i \in DOMAIN list : list[i] = x})

\* the referenced_by entry that mirrors the foreign key fk of table child
Incoming(child, fk) ==
    [child_table |-> child, child_column |-> fk.child_column,
     parent_column |-> fk.parent_column]

\* the foreign_keys entry that mirrors the referenced_by entry rb of parent
Outgoing(parent, rb) ==
    [parent_table |-> parent, parent_column |-> rb.parent_column,
     child_column |-> rb.child_column]

(* C13: in the graph analyze_foreign_key_relationships returns, for all    *)
(* distinct tables C and P of the graph, P.referenced_by holds the entry   *)
(* (C, c, p) as many times as C.foreign_keys holds (P, p, c); referenced_by*)
(* holds nothing else, and never the table's own foreign key to itself.    *)
C13_ReferencedByIsInverse ==
    pc = "graph" =>
        \A P \in DOMAIN relationships :
            /\ \A rb \in Range(relationships[P].referenced_by) :
                  /\ rb.child_table \in DOMAIN relationships \ {P}
                  /\ Count(relationships[P].referenced_by, rb)
                        = Count(relationships[rb.child_table].foreign_keys, Outgoing(P, rb))
            /\ \A C \in DOMAIN relationships \ {P} :
                  \A fk \in Range(relationships[C].foreign_keys) :
                      fk.parent_table = P =>
                          Count(relationships[P].referenced_by, Incoming(C, fk))
                            = Count(relationships[C].foreign_keys, fk)

\* a table with a foreign key to itself that another table references
\* through a constraint declared twice
C13_Witness ==
    /\ pc = "graph"
    /\ \E P \in DOMAIN relationships :
          /\ \E fk \in Range(relationships[P].foreign_keys) : fk.parent_table = P
          /\ \E rb \in Range(relationships[P].referenced_by) :
                Count(relationships[P].referenced_by, rb) = 2

(* C14: in the graph analyze_foreign_key_relationships returns, every      *)
(* parent_table named by a foreign key of any table is itself a key of the *)
(* graph; a foreign key to a table outside the graph is not kept silently. *)
C14_ParentsAreGraphKeys ==
    pc = "graph" =>
        \A t \in DOMAIN relationships :
            \A fk \in Range(relationships[t].foreign_keys) :
                fk.parent_table \in DOMAIN relationships

(* C16: a table whose metadata cannot be read, in the schema read or in    *)
(* the foreign-key read, is passed over and does not end the run: it has   *)
(* no entry in table_schemas, and no run ends with the error of that read. *)
C16_UnreadableTableIsSkipped ==
    /\ pc # "get_table_schemas" => DOMAIN table_schemas \cap db.no_info = {}
    /\ Failed => report.error # "Pure LLM analysis failed: " \o PragmaError

\* the call that raised, when the run ended on a call that raised
LastCall == llm_calls[Len(llm_calls)]

\* the table of the call is recorded without an RCC
RccGap(t) ==
    /\ t \in DOMAIN final_results.at
    /\ final_results.at[t].rcc_classification = EmptyDict
    /\ final_results.at[t].retention_reasoning = "Could not classify table into RCC"
    /\ "retention_analysis" \notin DOMAIN final_results.at[t]

\* the table of the call is recorded with an error as its retention analysis
RetentionGap(t) ==
    /\ t \in DOMAIN final_results.at
    /\ "error" \in DOMAIN final_results.at[t].retention_analysis

(* C17 as stated: every external call is issued at most once, and a call   *)
(* that fails never ends the run: no run ends with the error of a call     *)
(* that raised.                                                            *)
C17_FailedCallNeverEndsRun ==
    /\ \A i, j \in DOMAIN llm_calls :
          (llm_calls[i].kind = llm_calls[j].kind /\ llm_calls[i].target = llm_calls[j].target)
              => i = j
    /\ \A i \in DOMAIN llm_calls :
          llm_calls[i].result = "raised" =>
              ~(Failed /\ report.error = "Pure LLM analysis failed: " \o NoFallback)

(* C17, amended: every external call is issued at most once and never      *)
(* again.  An RCC call or a retention-column call that raises leaves a gap *)
(* for its table (no RCC, or an error as retention analysis) and the run   *)
(* goes on; a grouping call or a priority call that raises is the last     *)
(* call of the run, which ends with the no-fallback error, and no run ends *)
(* with that error otherwise.                                              *)
C17_NoRetry ==
    /\ \A i, j \in DOMAIN llm_calls :
          (llm_calls[i].kind = llm_calls[j].kind /\ llm_calls[i].target = llm_calls[j].target)
              => i = j
    /\ \A i \in DOMAIN llm_calls :
          llm_calls[i].result = "raised" =>
              CASE llm_calls[i].kind = "rcc"       -> RccGap(llm_calls[i].target)
                [] llm_calls[i].kind = "retention" -> RetentionGap(llm_calls[i].target)
                [] OTHER -> /\ i = Len(llm_calls)
                            /\ Failed
                            /\ report.error = "Pure LLM analysis failed: " \o NoFallback
    /\ (Failed /\ report.error = "Pure LLM analysis failed: " \o NoFallback) =>
          /\ llm_calls # <<>>
          /\ LastCall.kind \in {"grouping", "priority"}
          /\ LastCall.result = "raised"

\* a run that came through although the RCC call of one table and the
\* retention-column call of another raised
C17_Witness ==
    /\ Succeeded
    /\ \E c \in CallsOf("rcc") : c.result = "raised" /\ c.target \in ReportedTables
    /\ \E c \in CallsOf("retention") : c.result = "raised" /\ c.target \in ReportedTables
    /\ Len(llm_calls) >= 5

(* C18: in a non-error report every list of grouped_by_priority is in      *)
(* ascending order of intra_group_priority, where a table the priority     *)
(* step gave no priority counts as 2.                                      *)
C18_GroupsSortedByPriority ==
    Succeeded =>
        \A g \in DOMAIN report.grouped_by_priority.at :
            LET list == report.grouped_by_priority.at[g]
            IN  /\ \A i, j \in DOMAIN list :
                      i < j => list[i].intra_group_priority <= list[j].intra_group_priority
                /\ \A i \in DOMAIN list :
                      ~HasPriority(Reported(list[i].table_name)) =>
                          list[i].intra_group_priority = 2

\* a group whose second table in insertion order (orders, priority 1) was
\* moved before the first (order_items, no priority, counted as 2)
C18_Witness ==
    /\ Succeeded
    /\ \E g \in DOMAIN report.grouped_by_priority.at :
          LET list == report.grouped_by_priority.at[g]
          IN  /\ Len(list) = 2
              /\ list[1].table_name = "orders" /\ list[1].intra_group_priority = 1
              /\ list[2].table_name = "order_items"
              /\ ~HasPriority(Reported("order_items"))
              /\ report.table_analysis.order = <<"order_items", "orders">>

(* C19: create_comprehensive_report returns one of two shapes, whatever    *)
(* happened inside it (every exception of the run is caught at line 654    *)
(* and becomes the error report).  Nothing is reported before it returns;  *)
(* what it returns has either an error field and no table_analysis, or     *)
(* table_analysis, grouped_by_priority, total_tables and total_groups and  *)
(* no error field.                                                         *)
C19_ReportShapes ==
    /\ ~Done => report = NoReport
    /\ Done =>
          \/ /\ "error" \in DOMAIN report
             /\ "table_analysis" \notin DOMAIN report
          \/ /\ {"table_analysis", "grouped_by_priority", "total_tables", "total_groups"}
                    \subseteq DOMAIN report
             /\ "error" \notin DOMAIN report

\* a run that failed at the priority step, after its tables were analysed:
\* the error report holds none of them
C19_Witness ==
    /\ Failed
    /\ final_results.order # <<>>
    /\ grouped_tables.order # <<>>
    /\ "table_analysis" \notin DOMAIN report

\* the hints of the code the selection was called with ("or []" for None)
MockHints ==
    IF get_lookup_hints(mock_args.rcc_code) = None
    THEN <<>>
    ELSE get_lookup_hints(mock_args.rcc_code)

\* the column a hint stands for when it resolves, the hint itself when it
\* belongs to no family of column names
ResolvedColumn(h) ==
    CASE h \in {"creation_date", "created_at", "created"} -> "created_at"
      [] h \in {"transaction_date", "posted_at"}          -> "transaction_date"
      [] h \in {"active_flag", "is_active", "enabled"}     -> "is_active"
      [] h \in {"termination_date", "end_date"}            -> "termination_date"
      [] OTHER                                              -> h

FindChar(text, c, i) ==
    LET at == {j \in i..Len(text) : text[j] = c}
    IN  IF at = {} THEN 0 ELSE CHOOSE j \in at : \A k \in at : j <= k

\* the column definitions of a CREATE TABLE text: the part between the first
\* "(" and the last character, cut at the commas
RECURSIVE ColumnDefs(_, _)
ColumnDefs(text, i) ==
    LET comma == FindChar(text, ",", i)
    IN  IF i > Len(text) - 1 THEN {}
        ELSE IF comma = 0 THEN {Strip(SubSeq(text, i, Len(text) - 1))}
        ELSE {Strip(SubSeq(text, i, comma - 1))} \cup ColumnDefs(text, comma + 1)

\* the column names a definition text declares: the first word of each
\* column definition
ColumnNames(text) ==
    LET open == FindChar(text, "(", 1)
        word(def) == LET sp == FindChar(def, " ", 1)
                     IN  IF sp = 0 THEN def ELSE SubSeq(def, 1, sp - 1)
    IN  IF open = 0 THEN {} ELSE {word(def) : def \in ColumnDefs(text, open + 1)}

\* the four column names the selection resolves hints to
ResolvedNames == {"created_at", "transaction_date", "is_active", "termination_date"}

\* their characters
ColumnChars(c) ==
    CASE c = "created_at"       -> <<"c","r","e","a","t","e","d","_","a","t">>
      [] c = "transaction_date" -> <<"t","r","a","n","s","a","c","t","i","o","n","_","d","a","t","e">>
      [] c = "is_active"        -> <<"i","s","_","a","c","t","i","v","e">>
      [] c = "termination_date" -> <<"t","e","r","m","i","n","a","t","i","o","n","_","d","a","t","e">>
      [] OTHER                  -> <<>>

(* C21: every name the retention-column selection reports in place of a    *)
(* hint it resolved is a column the table's definition declares; it never  *)
(* reports created_at, is_active, termination_date or transaction_date for *)
(* a table whose definition has no such column (names compared as SQLite   *)
(* compares them, without regard to case).                                 *)
C21_ResolvedColumnsExist ==
    pc = "mock_selected" =>
        \A i \in DOMAIN mock_result.retention_lookup_columns :
            LET c == mock_result.retention_lookup_columns[i]
            IN  (c \in ResolvedNames /\ c # MockHints[i]) =>
                    ColumnChars(c) \in {Lower(n) : n \in ColumnNames(mock_args.schema)}


(* C22: the key set of the relationship graph is exactly the set of base   *)
(* tables whose name does not start with sqlite_: every non-system base    *)
(* table is a key, and no other name is.                                   *)
C22_GraphKeysAreNonSystemTables ==
    pc = "graph" =>
        DOMAIN relationships = {t \in db.tables : ~HasSqlitePrefix(t)}


(* C23: the introspector flags a column is_primary exactly when the column *)
(* is part of the table's PRIMARY KEY, and primary_keys lists exactly the  *)
(* key's columns: a column that only a unique index covers is not flagged, *)
(* and a key column with no index behind it (the rowid alias) is flagged.  *)
C23_IsPrimaryIffInPrimaryKey ==
    pc = "table_info" =>
        \A t \in DOMAIN table_info :
            /\ \A i \in DOMAIN table_info[t].columns :
                  table_info[t].columns[i].is_primary
                      <=> table_info[t].columns[i].name \in Range(db.primary_key)
            /\ Range(table_info[t].primary_keys) = Range(db.primary_key)


(* C24 as stated: get_lookup_hints returns the rule's hint sequence for a  *)
(* code of the registry and an empty sequence for every other code.        *)
C24_UnknownCodeGivesEmptySequence ==
    \A i \in DOMAIN lookups :
        /\ lookups[i].returned # None
        /\ lookups[i].returned =
               IF lookups[i].rcc_code \in DOMAIN NewRccMap
               THEN NewRccMap[lookups[i].rcc_code].lookup_column_hints
               ELSE <<>>

(* C24, amended: get_lookup_hints returns for every code: the rule's hint  *)
(* sequence for a code of the registry, and None, not a sequence, for      *)
(* every other code.                                                       *)
C24_UnknownCodeGivesNone ==
    \A i \in DOMAIN lookups :
        IF lookups[i].rcc_code \in DOMAIN NewRccMap
        THEN lookups[i].returned = NewRccMap[lookups[i].rcc_code].lookup_column_hints
        ELSE lookups[i].returned = None

\* a lookup of a registry code followed by one of a code outside it
C24_Witness ==
    /\ Len(lookups) = 2
    /\ lookups[1].rcc_code = "AUDIT_LOG"
    /\ lookups[1].returned = <<"created_at", "event_timestamp", "log_time">>
    /\ lookups[2].rcc_code = "ZZZ_UNKNOWN"


(* C25: every code of the registry maps to a rule with years > 0 and at    *)
(* least one lookup hint, and the codes are unique: the registry holds one *)
(* rule for each member of RetentionClassCode.                             *)
C25_RulesAreWellFormed ==
    /\ \A code \in DOMAIN available_rccs :
          /\ available_rccs[code].years > 0
          /\ Len(available_rccs[code].lookup_column_hints) > 0
    /\ Cardinality(DOMAIN available_rccs) = Len(RetentionClassCode)
    /\ \A i \in DOMAIN RetentionClassCode :
          /\ RetentionClassCode[i].code \in DOMAIN available_rccs
          /\ available_rccs[RetentionClassCode[i].code] = RetentionClassCode[i].rule

\* a constructed manager that has been asked for the hints of a code: its
\* registry holds the ten codes
C25_Witness ==
    /\ pc = "retention_manager"
    /\ Len(lookups) >= 1
    /\ Cardinality(DOMAIN available_rccs) = 10
    /\ available_rccs["EMP_DATA"].years = 5

(* C26: the registry is read-only: at every point of an analysis run, in   *)
(* real and in mock mode, available_rccs is the registry the manager was   *)
(* constructed with; no step adds, removes or changes an entry.            *)
C26_RegistryIsReadOnly ==
    rcc_map = NewRccMap

\* a finished real run that looked up a code of the registry, for which
\* the retention-column call was made, and a code outside it
C26_Witness ==
    /\ Done
    /\ ~mock_mode
    /\ \E i \in DOMAIN llm_calls : llm_calls[i].kind = "retention"
    /\ \E t \in DOMAIN final_results.at : UnknownRcc(final_results.at[t])


(* C27: a run in mock mode issues no external call, and once it has        *)
(* introspected at least one table it ends with a non-error report that    *)
(* holds every introspected table.                                         *)
C27_MockRunSucceedsWithoutCalls ==
    mock_mode =>
        /\ llm_calls = <<>>
        /\ (Done /\ table_schemas # EmptyDict) =>
               (Succeeded /\ DOMAIN table_schemas \subseteq ReportedTables)


\* the positions of the retention-column calls made for table t
RetentionCalls(t) ==
    {i \in DOMAIN llm_calls : llm_calls[i].kind = "retention" /\ llm_calls[i].target = t}

(* C28: a retention-column call is made for a table only right after the   *)
(* table's RCC call has returned, and only when the code it returned is a  *)
(* code of the registry.  A table with no code or an empty code has no     *)
(* retention_analysis and no retention-column call; a table with a code    *)
(* outside the registry has the retention_analysis {"error": "Unknown      *)
(* RCC"} and no retention-column call.                                     *)
C28_RetentionCallNeedsRegistryCode ==
    /\ \A i \in DOMAIN llm_calls :
          llm_calls[i].kind = "retention" =>
              /\ i > 1
              /\ llm_calls[i - 1].kind = "rcc"
              /\ llm_calls[i - 1].target = llm_calls[i].target
              /\ llm_calls[i - 1].result = "parsed"
              /\ llm_calls[i].target \in DOMAIN final_results.at
              /\ RecordedRcc(final_results.at[llm_calls[i].target]) \in DOMAIN available_rccs
    /\ \A t \in DOMAIN final_results.at :
          LET info == final_results.at[t]
          IN  /\ ~Truthy(RecordedRcc(info)) =>
                    ("retention_analysis" \notin DOMAIN info /\ RetentionCalls(t) = {})
              /\ UnknownRcc(info) =>
                    /\ "retention_analysis" \in DOMAIN info
                    /\ info.retention_analysis = [error |-> "Unknown RCC"]
                    /\ RetentionCalls(t) = {}
              /\ (~mock_mode /\ RecordedRcc(info) \in DOMAIN available_rccs) =>
                    Cardinality(RetentionCalls(t)) = 1

\* a real run in which one table got an empty code, and with it neither a
\* call nor a retention_analysis, and another a code of the registry and
\* the call
C28_Witness ==
    /\ ~mock_mode
    /\ \E t, v \in DOMAIN final_results.at :
          /\ RecordedRcc(final_results.at[t]) = ""
          /\ "retention_analysis" \notin DOMAIN final_results.at[t]
          /\ RecordedRcc(final_results.at[v]) = "FIN_TRANS"
          /\ RetentionCalls(v) # {}


\* the first "{" of the text is never balanced by the count of lines 336-343
NeverBalanced(text) ==
    /\ FindBrace(text, 1) # 0
    /\ BraceScan(text, FindBrace(text, 1), 0) = 0

(* C29: parse_json_response returns for every response text, and what it   *)
(* returns is the JSON value of the text, the JSON value of the object     *)
(* extracted from it, or the empty dict: it never raises.  For a text that *)
(* is no JSON value, with or without its wrapping, and whose first "{" is  *)
(* never balanced, or that has no "{" at all, it returns the empty dict.   *)
C29_ParseNeverRaises ==
    pc = "parsed" =>
        /\ parsed # RecursionError
        /\ \/ parsed = EmptyObject
           \/ IsJson(response_text) /\ parsed = JsonValue(response_text)
           \/ LET cleaned == ExtractObject(Cleaned(response_text))
              IN  IsJson(cleaned) /\ parsed = JsonValue(cleaned)
        /\ LET cleaned == Cleaned(response_text)
           IN  (/\ ~IsJson(response_text)
                /\ ~IsJson(cleaned)
                /\ (NeverBalanced(cleaned) \/ FindBrace(cleaned, 1) = 0))
                   => parsed = EmptyObject


\* the sizes of the lists of grouped_by_priority, summed in key order
RECURSIVE BucketSizes(_)
BucketSizes(groups) ==
    IF groups = <<>> THEN 0
    ELSE Len(report.grouped_by_priority.at[Head(groups)]) + BucketSizes(Tail(groups))

\* where table t is listed in grouped_by_priority: (group, position) pairs
Listings(t) ==
    {<<g, i>> \in (DOMAIN report.grouped_by_priority.at) \X (1..Cardinality(ReportedTables)) :
        /\ i <= Len(report.grouped_by_priority.at[g])
        /\ report.grouped_by_priority.at[g][i].table_name = t}

(* C30: in a non-error report total_tables is the number of tables of      *)
(* table_analysis, total_groups is the number of distinct groups among     *)
(* them and the number of keys of grouped_by_priority, every table is      *)
(* listed exactly once in grouped_by_priority, in the list of its group,   *)
(* and the sizes of the lists sum to total_tables.                         *)
C30_SummaryAgreesWithContents ==
    Succeeded =>
        /\ report.total_tables = Cardinality(ReportedTables)
        /\ report.total_tables = Len(report.table_analysis.order)
        /\ report.total_groups = Cardinality({Reported(t).group : t \in ReportedTables})
        /\ report.total_groups = Cardinality(DOMAIN report.grouped_by_priority.at)
        /\ Len(report.grouped_by_priority.order) = report.total_groups
        /\ \A t \in ReportedTables :
              /\ \A l \in Listings(t) : l[1] = Reported(t).group
              /\ Cardinality(Listings(t)) = 1
        /\ BucketSizes(report.grouped_by_priority.order) = report.total_tables

\* a report of two tables that share one group: two tables, one group, one
\* list of two entries
C30_Witness ==
    /\ Succeeded
    /\ report.total_tables = 2
    /\ report.total_groups = 1
    /\ \E g \in DOMAIN report.grouped_by_priority.at :
          Len(report.grouped_by_priority.at[g]) = 2

====
